---- MODULE Spec2Model ----
(***************************************************************************)
(* pytest-factoryboy: the compiler from factory declarations to fixture    *)
(* definitions (register / generate_fixturedefs / get_deps) and the        *)
(* two-phase construction protocol of model_fixture, as state machines.    *)
(***************************************************************************)
EXTENDS Naturals, Sequences, FiniteSets, TLC

VARIABLES
    blueprints,   \* factory class -> its _meta.declarations, in order
    caller,       \* the caller's locals: fixture name -> injected fixture
    call,         \* the arguments of the register() call made, or NoCall
    emitted,      \* the FixtureDefs that call generated, in order
    cache,        \* the test's fixture cache: fixture name -> resolved value
    stack,        \* the calls in progress, innermost last
    queue,        \* the coordinator's deferred units
    instances,    \* the model instances built so far
    trace,        \* model fixture name -> what its model_fixture call did
    ran,          \* the deferred units run so far, with what they got
    status        \* the test: idle, or failed with the error raised

buildVars == <<blueprints, caller, call, emitted>>

runVars == <<cache, stack, queue, instances, trace, ran, status>>

vars == <<buildVars, runVars>>

(***************************************************************************)
(* Bounds.                                                                 *)
(***************************************************************************)
\* declarations in the whole universe of factories
MaxDecls == 2

\* model instances built in one test
MaxInstances == 4

(***************************************************************************)
(* Names.                                                                  *)
(***************************************************************************)
SEPARATOR == "__"

None == "<None>"

Factories == {"AuthorFactory", "BookFactory", "EditionFactory"}

\* factory_class._meta.model.__name__
ModelClass(f) ==
    CASE f = "AuthorFactory" -> "Author"
      [] f = "BookFactory" -> "Book"
      [] f = "EditionFactory" -> "Edition"
      [] f = "AuthorVariant" -> "Author"
      [] f = "EditionVariant" -> "Edition"

\* inflection.underscore, on the class names of the universe
underscore(s) ==
    CASE s = "Author" -> "author"
      [] s = "Book" -> "book"
      [] s = "Edition" -> "edition"
      [] s = "AuthorFactory" -> "author_factory"
      [] s = "BookFactory" -> "book_factory"
      [] s = "EditionFactory" -> "edition_factory"

Join(a, b) == a \o SEPARATOR \o b

get_model_name(f) == underscore(ModelClass(f))

get_factory_name(f) == underscore(f)

(***************************************************************************)
(* Declarations.                                                           *)
(***************************************************************************)
Plain(v) == [kind |-> "plain", target |-> None, args |-> <<>>, lit |-> v]
LazyFixture(args) == [kind |-> "lazy", target |-> None, args |-> args, lit |-> None]
SubFactory(f) == [kind |-> "sub", target |-> f, args |-> <<>>, lit |-> None]
RelatedFactory(f) == [kind |-> "related", target |-> f, args |-> <<>>, lit |-> None]
PostGeneration == [kind |-> "postgen", target |-> None, args |-> <<>>, lit |-> None]

DeclValues ==
    {Plain("v"), LazyFixture(<<"db">>), PostGeneration}
        \cup {SubFactory(f) : f \in Factories}
        \cup {RelatedFactory(f) : f \in Factories}

AttrAt == <<"x", "y", "z", "w">>

\* an ordered mapping attr -> value, as the sequence of its items
Declarations(values) ==
    [i \in 1..Len(values) |-> [attr |-> AttrAt[i], value |-> values[i]]]

Attrs(f) == {blueprints[f][i].attr : i \in 1..Len(blueprints[f])}

\* overrides.get(attr, value)
OverridesGet(overrides, attr, value) ==
    IF attr \in DOMAIN overrides THEN overrides[attr] ELSE value

(***************************************************************************)
(* codegen.FixtureDef                                                      *)
(***************************************************************************)
FixtureDef(name, function_name, function_kwargs, deps, related) ==
    [name |-> name, function_name |-> function_name,
     function_kwargs |-> function_kwargs, deps |-> deps, related |-> related]

RECURSIVE SeqToSet(_)
SeqToSet(s) == IF s = <<>> THEN {} ELSE {Head(s)} \cup SeqToSet(Tail(s))

RECURSIVE MapNames(_, _)
MapNames(model_name, decls) ==
    IF decls = <<>> THEN <<>>
    ELSE <<Join(model_name, Head(decls).attr)>> \o MapNames(model_name, Tail(decls))

(***************************************************************************)
(* get_deps                                                                *)
(***************************************************************************)
\* the nested object that leads back to the parent kept as a dependency
is_dep_parent_kept(value, parent_model_name) == value.kind # "related"

\* lines 244-253
is_dep(value, parent_model_name) ==
    IF value.kind = "related" THEN FALSE
    ELSE IF value.kind = "sub" /\ get_model_name(value.target) = parent_model_name
    THEN FALSE
    ELSE TRUE

get_deps(factory_class, parent_factory_class, model_name) ==
    LET mn == IF model_name = None THEN get_model_name(factory_class) ELSE model_name
        parent_model_name ==
            IF parent_factory_class # None
            THEN get_model_name(parent_factory_class) ELSE None
        Keep(d) == is_dep(d.value, parent_model_name)
    IN  MapNames(mn, SelectSeq(blueprints[factory_class], Keep))

(***************************************************************************)
(* make_declaration_fixturedef: the FixtureDef of one declaration and the  *)
(* related list as the call leaves it.                                     *)
(***************************************************************************)
\* the related list assigned anew instead of appended to
make_declaration_fixturedef_assigned(attr_name, value, factory_class, related) ==
    IF value.kind \in {"sub", "related"}
    THEN LET subfactory_class == value.target
             subfactory_deps == get_deps(subfactory_class, factory_class, None)
             related_model == get_model_name(subfactory_class)
             args == subfactory_deps
                        \o (IF value.kind = "related" THEN <<related_model>> ELSE <<>>)
                        \o (IF value.kind = "sub"
                            THEN <<underscore(ModelClass(subfactory_class))>> ELSE <<>>)
         IN  [def |-> FixtureDef(attr_name, "subfactory_fixture",
                                 [factory_class |-> subfactory_class], args, <<>>),
              related |-> IF value.kind = "related"
                          THEN <<related_model, attr_name>> \o subfactory_deps
                          ELSE related]
    ELSE LET v == IF value.kind = "postgen" THEN Plain(None) ELSE value
             deps == IF value.kind = "lazy" THEN value.args ELSE <<>>
         IN  [def |-> FixtureDef(attr_name, "attr_fixture", [value |-> v], deps, <<>>),
              related |-> related]

make_declaration_fixturedef(attr_name, value, factory_class, related) ==
    IF value.kind \in {"sub", "related"}
    THEN LET subfactory_class == value.target
             subfactory_deps == get_deps(subfactory_class, factory_class, None)
             related_model == get_model_name(subfactory_class)
             args == subfactory_deps
                        \o (IF value.kind = "related" THEN <<related_model>> ELSE <<>>)
                        \o (IF value.kind = "sub"
                            THEN <<underscore(ModelClass(subfactory_class))>> ELSE <<>>)
         IN  [def |-> FixtureDef(attr_name, "subfactory_fixture",
                                 [factory_class |-> subfactory_class], args, <<>>),
              related |-> IF value.kind = "related"
                          THEN related \o <<related_model, attr_name>> \o subfactory_deps
                          ELSE related]
    ELSE LET v == IF value.kind = "postgen" THEN Plain(None) ELSE value
             deps == IF value.kind = "lazy" THEN value.args ELSE <<>>
         IN  [def |-> FixtureDef(attr_name, "attr_fixture", [value |-> v], deps, <<>>),
              related |-> related]

(***************************************************************************)
(* generate_fixturedefs                                                    *)
(***************************************************************************)
\* the loop of lines 115-125 after its first n iterations
RECURSIVE DeclarationLoop(_, _, _, _)
DeclarationLoop(factory_class, model_name, overrides, n) ==
    IF n = 0 THEN [defs |-> <<>>, related |-> <<>>]
    ELSE LET before == DeclarationLoop(factory_class, model_name, overrides, n - 1)
             item == blueprints[factory_class][n]
             value == OverridesGet(overrides, item.attr, item.value)
             attr_name == Join(model_name, item.attr)
             made == make_declaration_fixturedef(attr_name, value, factory_class,
                                                 before.related)
         IN  [defs |-> Append(before.defs, made.def), related |-> made.related]

\* the factory fixture emitted whether or not its name is bound
generate_fixturedefs_unguarded(factory_class, model_name, overrides, caller_locals) ==
    LET factory_name == get_factory_name(factory_class)
        loop == DeclarationLoop(factory_class, model_name, overrides,
                                Len(blueprints[factory_class]))
        deps == get_deps(factory_class, None, model_name)
    IN  loop.defs
          \o <<FixtureDef(factory_name, "factory_fixture",
                          [factory_class |-> factory_class], <<>>, <<>>)>>
          \o <<FixtureDef(model_name, "model_fixture",
                          [factory_name |-> factory_name], deps, loop.related)>>

generate_fixturedefs(factory_class, model_name, overrides, caller_locals) ==
    LET factory_name == get_factory_name(factory_class)
        loop == DeclarationLoop(factory_class, model_name, overrides,
                                Len(blueprints[factory_class]))
        deps == get_deps(factory_class, None, model_name)
    IN  loop.defs
          \o (IF factory_name \notin DOMAIN caller_locals
              THEN <<FixtureDef(factory_name, "factory_fixture",
                                [factory_class |-> factory_class], <<>>, <<>>)>>
              ELSE <<>>)
          \o <<FixtureDef(model_name, "model_fixture",
                          [factory_name |-> factory_name], deps, loop.related)>>

(***************************************************************************)
(* register                                                                *)
(***************************************************************************)
\* inject_into_caller, for every generated fixture
RECURSIVE InjectAll(_, _)
InjectAll(locals, defs) ==
    IF defs = <<>> THEN locals
    ELSE LET d == Head(defs)
             injected == [n \in DOMAIN locals \cup {d.name} |->
                             IF n = d.name THEN d ELSE locals[n]]
         IN  InjectAll(injected, Tail(defs))

NoCall == [factory_class |-> None]

NoLocals == [n \in {} |-> None]

\* a fixture the caller wrote by hand
HostFixture(name, value) ==
    FixtureDef(name, "host", [value |-> value], <<>>, <<>>)

OverrideSets(f) ==
    {NoLocals} \cup {[a \in {attr} |-> v] : attr \in Attrs(f), v \in DeclValues}

Idle == [state |-> "idle", why |-> None, name |-> None, queue0 |-> <<>>]

NoTrace == [n \in {} |-> <<>>]

InitTest ==
    /\ cache = NoLocals
    /\ stack = <<>>
    /\ queue = <<>>
    /\ instances = <<>>
    /\ trace = NoTrace
    /\ ran = {}
    /\ status = Idle

\* the caller's locals after register(factory_class, _name, **kwargs)
Registered(factory_class, _name, _caller_locals, kwargs) ==
    LET model_name == IF _name = None THEN get_model_name(factory_class) ELSE _name
        fixture_defs == generate_fixturedefs(factory_class, model_name, kwargs,
                                             _caller_locals)
    IN  InjectAll(_caller_locals, fixture_defs)

register(factory_class, _name, _caller_locals, kwargs) ==
    LET model_name == IF _name = None THEN get_model_name(factory_class) ELSE _name
        fixture_defs == generate_fixturedefs(factory_class, model_name, kwargs,
                                             _caller_locals)
    IN  /\ call' = [factory_class |-> factory_class, model_name |-> model_name,
                    overrides |-> kwargs, caller_locals |-> _caller_locals]
        /\ emitted' = fixture_defs
        /\ caller' = Registered(factory_class, _name, _caller_locals, kwargs)
        /\ UNCHANGED <<blueprints, runVars>>

Register ==
    /\ call = NoCall
    /\ \E f \in Factories, name \in {None, "second"}, bound \in BOOLEAN :
         \E kwargs \in OverrideSets(f) :
            LET locals == IF bound
                          THEN [n \in {get_factory_name(f)} |->
                                    HostFixture(get_factory_name(f), f)]
                          ELSE NoLocals
            IN  register(f, name, locals, kwargs)

(***************************************************************************)
(* The universe: every assignment of at most MaxDecls declarations to the  *)
(* factories.                                                              *)
(***************************************************************************)
RECURSIVE Sum(_, _)
Sum(l, S) ==
    IF S = {} THEN 0
    ELSE LET f == CHOOSE f \in S : TRUE IN l[f] + Sum(l, S \ {f})

Lengths == {l \in [Factories -> 0..MaxDecls] : Sum(l, Factories) <= MaxDecls}

InitBuild ==
    /\ \E l \in Lengths :
         \E a \in [1..l["AuthorFactory"] -> DeclValues],
            b \in [1..l["BookFactory"] -> DeclValues],
            e \in [1..l["EditionFactory"] -> DeclValues] :
            blueprints = [f \in Factories |->
                            Declarations(CASE f = "AuthorFactory" -> a
                                           [] f = "BookFactory" -> b
                                           [] f = "EditionFactory" -> e)]
    /\ caller = NoLocals
    /\ call = NoCall
    /\ emitted = <<>>
    /\ InitTest

NextBuild == Register

SpecBuild == InitBuild /\ [][NextBuild]_vars

(***************************************************************************)
(* What the claims about one register() call read.                         *)
(***************************************************************************)
CallMade == call.factory_class # None

\* the value generate_fixturedefs classifies for the i-th declaration
Effective(i) ==
    LET item == blueprints[call.factory_class][i]
    IN  OverridesGet(call.overrides, item.attr, item.value)

NumDecls == Len(blueprints[call.factory_class])

ModelDef == emitted[Len(emitted)]

IsPrefix(s, t) == Len(s) <= Len(t) /\ SubSeq(t, 1, Len(s)) = s

Names(defs) == {defs[i].name : i \in 1..Len(defs)}

\* the fixture names of the declarations of blueprint c that pass Keep
NamesOfKept(c, Keep(_)) ==
    LET kept == SelectSeq(blueprints[c], Keep)
    IN  [j \in 1..Len(kept) |-> get_model_name(c) \o "__" \o kept[j].attr]

(***************************************************************************)
(* C3: the fixture name of a ReverseAssociation declaration (classified    *)
(* after its override) is never among the dependency names of the model    *)
(* definition, while that name, the nested model's fixture name and the    *)
(* nested blueprint's dependency names are all in its related list.        *)
(***************************************************************************)
C3_ReverseNotADependency ==
    CallMade =>
        \A i \in 1..NumDecls :
            Effective(i).kind = "related" =>
                LET attr_name == call.model_name \o "__"
                                    \o blueprints[call.factory_class][i].attr
                    rel == SeqToSet(ModelDef.related)
                IN  /\ attr_name \notin SeqToSet(ModelDef.deps)
                    /\ attr_name \in rel
                    /\ get_model_name(Effective(i).target) \in rel
                    /\ SeqToSet(get_deps(Effective(i).target, call.factory_class, None))
                          \subseteq rel

(***************************************************************************)
(* C5 as stated: the dependency names of the attribute definition of a     *)
(* NestedObject declaration are the child's dependency names minus the     *)
(* child's NestedObject declarations resolving to the model name M the     *)
(* parent was registered under, followed by the child's model fixture name.*)
(***************************************************************************)
C5_ExcludesRegisteredName ==
    CallMade =>
        \A i \in 1..NumDecls :
            Effective(i).kind = "sub" =>
                LET c == Effective(i).target
                    Keep(d) == /\ d.value.kind # "related"
                               /\ ~(/\ d.value.kind = "sub"
                                    /\ get_model_name(d.value.target) = call.model_name)
                IN  emitted[i].deps = NamesOfKept(c, Keep) \o <<get_model_name(c)>>

(***************************************************************************)
(* C5 amended: the dependency names of the attribute definition of a       *)
(* NestedObject declaration are the child's dependency names minus the     *)
(* child's NestedObject declarations resolving to the default model name   *)
(* of the parent blueprint (whatever name the parent is registered under), *)
(* followed by the child's model fixture name; none of them is the fixture *)
(* of a child NestedObject declaration that resolves to that name.         *)
(***************************************************************************)
C5_ExcludesParentModel ==
    CallMade =>
        \A i \in 1..NumDecls :
            Effective(i).kind = "sub" =>
                LET c == Effective(i).target
                    parent == get_model_name(call.factory_class)
                    Back(d) == /\ d.value.kind = "sub"
                               /\ get_model_name(d.value.target) = parent
                    Keep(d) == d.value.kind # "related" /\ ~Back(d)
                IN  /\ emitted[i].deps = NamesOfKept(c, Keep) \o <<get_model_name(c)>>
                    /\ SeqToSet(NamesOfKept(c, Back)) \cap SeqToSet(emitted[i].deps) = {}

\* a NestedObject declaration was registered whose child refers back to the parent
C5_Witness ==
    /\ CallMade
    /\ \E i \in 1..NumDecls :
         /\ Effective(i).kind = "sub"
         /\ Effective(i).target # call.factory_class
         /\ \E j \in 1..Len(blueprints[Effective(i).target]) :
              blueprints[Effective(i).target][j].value = SubFactory(call.factory_class)
         /\ emitted[i].deps = <<get_model_name(Effective(i).target)>>

(***************************************************************************)
(* C6: the attribute definitions are emitted in declaration order, then    *)
(* the blueprint-reference definition iff its name is not bound in the     *)
(* target scope, then the model definition; nothing else, each name once.  *)
(***************************************************************************)
C6_EmissionOrder ==
    CallMade =>
        LET f == call.factory_class
            fresh == get_factory_name(f) \notin DOMAIN call.caller_locals
            refs == {k \in 1..Len(emitted) : emitted[k].function_name = "factory_fixture"}
        IN  /\ Len(emitted) = NumDecls + (IF fresh THEN 1 ELSE 0) + 1
            /\ \A i \in 1..NumDecls :
                 /\ emitted[i].name = call.model_name \o "__" \o blueprints[f][i].attr
                 /\ emitted[i].function_name \in {"attr_fixture", "subfactory_fixture"}
            /\ refs = IF fresh THEN {NumDecls + 1} ELSE {}
            /\ \A k \in refs : emitted[k].name = get_factory_name(f)
            /\ ModelDef.name = call.model_name
            /\ ModelDef.function_name = "model_fixture"
            /\ \A k \in 1..Len(emitted) :
                 emitted[k].function_name = "model_fixture" => k = Len(emitted)
            /\ Cardinality(Names(emitted)) = Len(emitted)

\* two declarations registered into a scope that already binds the factory name
C6_Witness ==
    /\ CallMade
    /\ NumDecls = 2
    /\ get_factory_name(call.factory_class) \in DOMAIN call.caller_locals
    /\ Len(emitted) = 3

(***************************************************************************)
(* C8 as stated: when A declares a ReverseAssociation to B, every name in  *)
(* the related list of B's model definition is in the related list of A's  *)
(* model definition.                                                       *)
(***************************************************************************)
C8_RelatedTransitive ==
    CallMade =>
        \A i \in 1..NumDecls :
            Effective(i).kind = "related" =>
                LET b == Effective(i).target
                    ofB == DeclarationLoop(b, get_model_name(b), NoLocals,
                                           Len(blueprints[b])).related
                IN  b # call.factory_class =>
                        SeqToSet(ofB) \subseteq SeqToSet(ModelDef.related)

(***************************************************************************)
(* C8 amended: the related list of A's model definition holds, for each    *)
(* ReverseAssociation of A to B, B's model fixture name, the attribute's   *)
(* fixture name and the fixture names of B's declarations that are neither *)
(* a ReverseAssociation nor a NestedObject back to A (one level, B's own   *)
(* related names are not folded in); the list only grows while the         *)
(* declarations are processed.                                             *)
(***************************************************************************)
C8_RelatedOneLevel ==
    CallMade =>
        LET f == call.factory_class
            After(n) == DeclarationLoop(f, call.model_name, call.overrides, n).related
        IN  /\ ModelDef.related = After(NumDecls)
            /\ \A n \in 1..NumDecls : IsPrefix(After(n - 1), After(n))
            /\ \A i \in 1..NumDecls :
                 Effective(i).kind = "related" =>
                    LET b == Effective(i).target
                        Keep(d) == /\ d.value.kind # "related"
                                   /\ ~(/\ d.value.kind = "sub"
                                        /\ get_model_name(d.value.target)
                                             = get_model_name(f))
                    IN  {get_model_name(b),
                         call.model_name \o "__" \o blueprints[f][i].attr}
                            \cup SeqToSet(NamesOfKept(b, Keep))
                          \subseteq SeqToSet(ModelDef.related)

\* A -> B -> C by reverse associations: B's related names are not in A's list
C8_Witness ==
    /\ CallMade
    /\ \E i \in 1..NumDecls :
         /\ Effective(i).kind = "related"
         /\ LET b == Effective(i).target
            IN  /\ b # call.factory_class
                /\ \E j \in 1..Len(blueprints[b]) :
                     /\ blueprints[b][j].value.kind = "related"
                     /\ blueprints[b][j].value.target \notin {b, call.factory_class}
                     /\ get_model_name(blueprints[b][j].value.target)
                           \notin SeqToSet(ModelDef.related)

(***************************************************************************)
(* Registering the factories of the universe one after the other into the  *)
(* same scope, each under its default model name and without overrides;    *)
(* no blueprint refers to itself.                                          *)
(***************************************************************************)
RegisterNext ==
    \E f \in Factories :
        /\ get_model_name(f) \notin DOMAIN caller
        /\ \A i \in 1..Len(blueprints[f]) : blueprints[f][i].value.target # f
        /\ register(f, None, caller, NoLocals)

SpecGraph == InitBuild /\ [][RegisterNext]_vars

\* fixtures the host framework or the test suite provides by itself
HostFixtures == {"request", "db"}

DepsOf(n) == IF n \in DOMAIN caller THEN SeqToSet(caller[n].deps) ELSE {}

\* the names reachable from the set S along dependency names
RECURSIVE Reach(_)
Reach(S) ==
    LET more == S \cup UNION {DepsOf(n) : n \in S}
    IN  IF more = S THEN S ELSE Reach(more)

AllRegistered == \A f \in Factories : get_model_name(f) \in DOMAIN caller

(***************************************************************************)
(* C4: once the blueprints are registered, the graph of the emitted        *)
(* definitions along their dependency names has no cycle, and every        *)
(* dependency name is an emitted definition or a host-provided fixture.    *)
(***************************************************************************)
C4_AcyclicAndClosed ==
    AllRegistered =>
        \A n \in DOMAIN caller :
            /\ n \notin Reach(DepsOf(n))
            /\ DepsOf(n) \subseteq DOMAIN caller \cup HostFixtures

(***************************************************************************)
(* The test run: values, factory_boy's split of the declarations, frames.  *)
(***************************************************************************)
InstanceIds == <<"#1", "#2", "#3", "#4", "#5", "#6">>

FactoryValue(f) == [kind |-> "factory", target |-> f, args |-> <<>>, lit |-> None]

InstanceValue(f, n) ==
    [kind |-> "instance", target |-> f, args |-> <<>>, lit |-> InstanceIds[n]]

\* factory.declarations.NotProvided
NotProvided == [kind |-> "NotProvided", target |-> None, args |-> <<>>, lit |-> None]

NoInstance == [kind |-> "none", target |-> None, args |-> <<>>, lit |-> None]

\* the keys a post-generation context is declared with (attr__key)
ContextKeys == {"", "k", "extra"}

IsPost(d) == d.value.kind \in {"related", "postgen"}

\* factory_class._meta.post_declarations.sorted()
post_declarations(f) == SelectSeq(blueprints[f], IsPost)

IsContext(f, d) ==
    /\ ~IsPost(d)
    /\ \E i \in 1..Len(blueprints[f]), k \in ContextKeys :
         IsPost(blueprints[f][i]) /\ d.attr = Join(blueprints[f][i].attr, k)

\* factory_class._meta.pre_declarations
pre_declarations(f) ==
    LET Pre(d) == ~IsPost(d) /\ ~IsContext(f, d)
    IN  SelectSeq(blueprints[f], Pre)

\* factory_class._meta.post_declarations.contexts[attr]
contexts(f, attr) ==
    LET At(k) == {i \in 1..Len(blueprints[f]) :
                    /\ blueprints[f][i].attr = Join(attr, k)
                    /\ ~IsPost(blueprints[f][i])}
        keys == {k \in ContextKeys : At(k) # {}}
    IN  [k \in keys |-> blueprints[f][CHOOSE i \in At(k) : TRUE].value]

NoUnit ==
    [name |-> None, fixture |-> None, attr |-> None, factory |-> None,
     is_related |-> FALSE, instance |-> NoInstance, value |-> NotProvided,
     value_provided |-> FALSE, extra |-> NoLocals]

Frame(kind, name, pc) ==
    [kind |-> kind, name |-> name, pc |-> pc, unit |-> NoUnit,
     instance |-> NoInstance, queue0 |-> <<>>]

Event(ev, instance, units) == [ev |-> ev, instance |-> instance, units |-> units]

Top == stack[Len(stack)]

Pop == SubSeq(stack, 1, Len(stack) - 1)

SetTop(frame) == [stack EXCEPT ![Len(stack)] = frame]

Running == status.state = "idle" /\ stack # <<>>

Put(f, n, v) == [m \in DOMAIN f \cup {n} |-> IF m = n THEN v ELSE f[m]]

Log(n, e) == Put(trace, n, IF n \in DOMAIN trace THEN Append(trace[n], e) ELSE <<e>>)

OnStack(n) ==
    \E i \in 1..Len(stack) : stack[i].kind = "fixture" /\ stack[i].name = n

\* the fixtures being set up whose value is not in the cache yet
InProgress ==
    {stack[i].name : i \in {j \in 1..Len(stack) : stack[j].kind = "fixture"}}
        \ DOMAIN cache

\* request._fixturedef.argnames of the fixture being set up
argnames(fixture_name) == SeqToSet(caller[fixture_name].deps)

(***************************************************************************)
(* evaluate and LazyFixture.evaluate, for a lazy fixture given by name     *)
(***************************************************************************)
evaluate(value) == IF value.kind = "lazy" THEN cache[value.args[1]] ELSE value

\* names, each followed by the fixture a lazy value found under it asks for
RECURSIVE WithLazy(_)
WithLazy(names) ==
    IF names = <<>> THEN <<>>
    ELSE LET n == Head(names)
         IN  <<n>>
               \o (IF n \in DOMAIN cache /\ cache[n].kind = "lazy"
                   THEN cache[n].args ELSE <<>>)
               \o WithLazy(Tail(names))

(***************************************************************************)
(* model_fixture, piece by piece                                           *)
(***************************************************************************)
Prefix(fixture_name) == fixture_name \o SEPARATOR

\* lines 292-296: the fixtures read for the constructor's arguments
KwargNames(fixture_name, factory_class) ==
    LET pre == pre_declarations(factory_class)
        Given(d) == (Prefix(fixture_name) \o d.attr) \in argnames(fixture_name)
        given == SelectSeq(pre, Given)
    IN  [i \in 1..Len(given) |-> Prefix(fixture_name) \o given[i].attr]

\* the bare key looked up among the parameters instead of prefix + key
ModelKwargs_bare_key(fixture_name, factory_class) ==
    LET keys == {d.attr : d \in {pre_declarations(factory_class)[i] :
                                    i \in 1..Len(pre_declarations(factory_class))}}
        given == {key \in keys : key \in argnames(fixture_name)}
    IN  [key \in given |-> evaluate(cache[Prefix(fixture_name) \o key])]

\* lines 292-296: kwargs
ModelKwargs(fixture_name, factory_class) ==
    LET keys == {d.attr : d \in {pre_declarations(factory_class)[i] :
                                    i \in 1..Len(pre_declarations(factory_class))}}
        given == {key \in keys :
                    (Prefix(fixture_name) \o key) \in argnames(fixture_name)}
    IN  [key \in given |-> evaluate(cache[Prefix(fixture_name) \o key])]

\* line 302: Factory(**kwargs) returns the instance or raises
Construct(factory_class, fixture_name, kwargs, ok) ==
    IF ok
    THEN [raised |-> FALSE,
          instance |-> InstanceValue(factory_class, Len(instances) + 1),
          built |-> <<[factory |-> factory_class, fixture |-> fixture_name,
                       kwargs |-> kwargs]>>]
    ELSE [raised |-> TRUE, instance |-> NoInstance, built |-> <<>>]

\* the early write left out
CacheWrite_left_out(c, fixture_name, instance) == c

\* lines 305-306: the early write of the fixture cache
CacheWrite(c, fixture_name, instance) == Put(c, fixture_name, instance)

\* the unit of a reverse association not marked as such
make_deferred_related_unmarked(factory, fixture, attr) ==
    [NoUnit EXCEPT !.name = Join(fixture, attr), !.fixture = fixture, !.attr = attr,
                   !.factory = factory, !.is_related = FALSE]

\* lines 348-367
make_deferred_related(factory, fixture, attr) ==
    [NoUnit EXCEPT !.name = Join(fixture, attr), !.fixture = fixture, !.attr = attr,
                   !.factory = factory, !.is_related = TRUE]

\* lines 370-400
make_deferred_postgen(factory_class, fixture, instance, attr, context) ==
    [NoUnit EXCEPT !.name = Join(fixture, attr), !.fixture = fixture, !.attr = attr,
                   !.factory = factory_class, !.is_related = FALSE,
                   !.instance = instance, !.value = context.value,
                   !.value_provided = context.value_provided,
                   !.extra = context.extra]

\* the declared default taken although the fixture is a parameter
Extra_default_only(fixture_name, factory_class, attr) ==
    LET ctx == contexts(factory_class, attr)
    IN  [k \in DOMAIN ctx \ {""} |-> ctx[k]]

\* lines 319-328: the extra of one post-generation declaration
Extra(fixture_name, factory_class, attr) ==
    LET argname == Prefix(fixture_name) \o attr
        ctx == contexts(factory_class, attr)
    IN  [k \in DOMAIN ctx \ {""} |->
            LET post_attr == Join(argname, k)
            IN  IF post_attr \in argnames(fixture_name)
                THEN evaluate(cache[post_attr])
                ELSE ctx[k]]

\* lines 311-340: the fixtures the loop reads, in order
DeferNames(fixture_name, factory_class) ==
    LET post == post_declarations(factory_class)
        Of(d) ==
            IF d.value.kind = "related" THEN <<>>
            ELSE LET argname == Prefix(fixture_name) \o d.attr
                     ctx == contexts(factory_class, d.attr)
                     Asked(k) == k # "" /\ Join(argname, k) \in argnames(fixture_name)
                     ks == {k \in DOMAIN ctx : Asked(k)}
                     RECURSIVE Seqd(_)
                     Seqd(S) == IF S = {} THEN <<>>
                                ELSE LET k == CHOOSE k \in S : TRUE
                                     IN  <<Join(argname, k)>> \o Seqd(S \ {k})
                 IN  Seqd(ks) \o <<argname>>
        RECURSIVE All(_)
        All(ds) == IF ds = <<>> THEN <<>> ELSE Of(Head(ds)) \o All(Tail(ds))
    IN  All(post)

\* lines 309-340: the list handed to defer
Deferred(fixture_name, factory_class, instance) ==
    LET post == post_declarations(factory_class)
        Unit(d) ==
            IF d.value.kind = "related"
            THEN make_deferred_related(factory_class, fixture_name, d.attr)
            ELSE LET postgen_value ==
                         evaluate(cache[Prefix(fixture_name) \o d.attr])
                     postgen_context ==
                         [value_provided |-> postgen_value # NotProvided,
                          value |-> postgen_value,
                          extra |-> Extra(fixture_name, factory_class, d.attr)]
                 IN  make_deferred_postgen(factory_class, fixture_name, instance,
                                           d.attr, postgen_context)
    IN  [i \in 1..Len(post) |-> Unit(post[i])]

(***************************************************************************)
(* The host: fixture lookup, dependency injection, getfixturevalue         *)
(***************************************************************************)
function_name(n) == caller[n].function_name

\* the fixtures the frame reads before its next step
Needs(frame) ==
    IF frame.kind = "unit"
    THEN IF frame.unit.is_related THEN <<frame.unit.name>> ELSE <<>>
    ELSE IF frame.kind # "fixture" THEN <<>>
    ELSE IF frame.pc = "deps"
    THEN caller[frame.name].deps
           \o (IF function_name(frame.name) = "subfactory_fixture"
               THEN <<underscore(ModelClass(
                        caller[frame.name].function_kwargs.factory_class))>>
               ELSE <<>>)
    ELSE LET factory_name == caller[frame.name].function_kwargs.factory_name
         IN  IF frame.pc = "build"
             THEN IF factory_name \notin DOMAIN cache THEN <<factory_name>>
                  ELSE WithLazy(KwargNames(frame.name, cache[factory_name].target))
             ELSE IF frame.pc = "defer"
             THEN WithLazy(DeferNames(frame.name, cache[factory_name].target))
             ELSE <<>>

Missing(names) == SelectSeq(names, LAMBDA n : n \notin DOMAIN cache)

Ready(frame) == Missing(Needs(frame)) = <<>>

\* an error in a fixture propagates through every frame to the test
Fail(why, n, queue0) ==
    /\ status' = [state |-> "failed", why |-> why, name |-> n, queue0 |-> queue0]
    /\ stack' = <<>>

\* a test asks for a fixture
Request(n) ==
    /\ status.state = "idle"
    /\ stack = <<>>
    /\ n \in DOMAIN caller
    /\ n \notin DOMAIN cache
    /\ stack' = <<Frame("fixture", n, "deps")>>
    /\ UNCHANGED <<buildVars, cache, queue, instances, trace, ran, status>>

\* the frame on top asks for the first fixture it still misses
Call ==
    /\ Running
    /\ Missing(Needs(Top)) # <<>>
    /\ LET n == Head(Missing(Needs(Top)))
       IN  IF n \notin DOMAIN caller
           THEN Fail("lookup", n, <<>>)
           ELSE IF OnStack(n)
           THEN Fail("recursive", n, <<>>)
           ELSE /\ stack' = Append(stack, Frame("fixture", n, "deps"))
                /\ UNCHANGED status
    /\ UNCHANGED <<buildVars, cache, queue, instances, trace, ran>>

Return(value) ==
    /\ cache' = Put(cache, Top.name, value)
    /\ stack' = Pop
    /\ UNCHANGED <<buildVars, queue, instances, trace, ran, status>>

AtBody(fn) ==
    /\ Running
    /\ Top.kind = "fixture"
    /\ Top.pc = "deps"
    /\ function_name(Top.name) = fn
    /\ Ready(Top)

host_fixture == AtBody("host") /\ Return(caller[Top.name].function_kwargs.value)

attr_fixture == AtBody("attr_fixture") /\ Return(caller[Top.name].function_kwargs.value)

factory_fixture ==
    /\ AtBody("factory_fixture")
    /\ Return(FactoryValue(caller[Top.name].function_kwargs.factory_class))

subfactory_fixture ==
    /\ AtBody("subfactory_fixture")
    /\ Return(cache[underscore(ModelClass(
                        caller[Top.name].function_kwargs.factory_class))])

(***************************************************************************)
(* model_fixture, step by step                                             *)
(***************************************************************************)
AtModel(pc) ==
    /\ Running
    /\ Top.kind = "fixture"
    /\ function_name(Top.name) = "model_fixture"
    /\ Top.pc = pc
    /\ Ready(Top)

FactoryOf(fixture_name) == cache[caller[fixture_name].function_kwargs.factory_name].target

\* line 270: the evaluate call on entry
ModelEntry ==
    /\ AtModel("deps")
    /\ stack' = Append(SetTop([Top EXCEPT !.pc = "build", !.queue0 = queue]),
                       Frame("evaluate", Top.name, "run"))
    /\ trace' = Log(Top.name, Event("evaluate", NoInstance, <<>>))
    /\ UNCHANGED <<buildVars, cache, queue, instances, ran, status>>

\* the constructor's error caught, the fixture going on without an instance
ModelConstruct_caught ==
    /\ AtModel("build")
    /\ caller[Top.name].function_kwargs.factory_name \in DOMAIN cache
    /\ Len(instances) < MaxInstances
    /\ \E ok \in BOOLEAN :
         LET factory_class == FactoryOf(Top.name)
             kwargs == ModelKwargs(Top.name, factory_class)
             made == Construct(factory_class, Top.name, kwargs, ok)
         IN  /\ instances' = instances \o made.built
             /\ stack' = SetTop([Top EXCEPT !.pc = "cache", !.instance = made.instance])
             /\ trace' = Log(Top.name,
                             Event(IF made.raised THEN "raise" ELSE "construct",
                                   made.instance, <<>>))
             /\ UNCHANGED status
    /\ UNCHANGED <<buildVars, cache, queue, ran>>

\* lines 276-302: the factory, the arguments, the constructor
ModelConstruct ==
    /\ AtModel("build")
    /\ caller[Top.name].function_kwargs.factory_name \in DOMAIN cache
    /\ Len(instances) < MaxInstances
    /\ \E ok \in BOOLEAN :
         LET factory_class == FactoryOf(Top.name)
             kwargs == ModelKwargs(Top.name, factory_class)
             made == Construct(factory_class, Top.name, kwargs, ok)
         IN  IF made.raised
             THEN /\ Fail("constructor", Top.name, Top.queue0)
                  /\ trace' = Log(Top.name, Event("raise", NoInstance, <<>>))
                  /\ UNCHANGED instances
             ELSE /\ instances' = instances \o made.built
                  /\ stack' = SetTop([Top EXCEPT !.pc = "cache",
                                                 !.instance = made.instance])
                  /\ trace' = Log(Top.name, Event("construct", made.instance, <<>>))
                  /\ UNCHANGED status
    /\ UNCHANGED <<buildVars, cache, queue, ran>>

\* lines 305-306
ModelCache ==
    /\ AtModel("cache")
    /\ cache' = CacheWrite(cache, Top.name, Top.instance)
    /\ stack' = SetTop([Top EXCEPT !.pc = "defer"])
    /\ trace' = Log(Top.name, Event("cache", Top.instance, <<>>))
    /\ UNCHANGED <<buildVars, queue, instances, ran, status>>

\* lines 309-341: build the deferred list and hand it to defer
ModelDefer ==
    /\ AtModel("defer")
    /\ LET deferred == Deferred(Top.name, FactoryOf(Top.name), Top.instance)
       IN  /\ queue' = queue \o deferred
           /\ trace' = Log(Top.name, Event("defer", Top.instance, deferred))
    /\ stack' = SetTop([Top EXCEPT !.pc = "exit"])
    /\ UNCHANGED <<buildVars, cache, instances, ran, status>>

\* line 344: the evaluate call on exit
ModelExit ==
    /\ AtModel("exit")
    /\ stack' = Append(SetTop([Top EXCEPT !.pc = "return"]),
                       Frame("evaluate", Top.name, "run"))
    /\ trace' = Log(Top.name, Event("evaluate", NoInstance, <<>>))
    /\ UNCHANGED <<buildVars, cache, queue, instances, ran, status>>

\* line 345
ModelReturn ==
    /\ AtModel("return")
    /\ cache' = Put(cache, Top.name, Top.instance)
    /\ stack' = Pop
    /\ trace' = Log(Top.name, Event("return", Top.instance, <<>>))
    /\ UNCHANGED <<buildVars, queue, instances, ran, status>>

(***************************************************************************)
(* The coordinator: evaluate runs the queued units that can run now, a     *)
(* reverse-association unit only when resolving its fixture does not lead  *)
(* into a model fixture that is still being set up.                        *)
(***************************************************************************)
\* the fixtures that setting up n asks for: its parameters, and the fixture
\* its body fetches by name (lines 276 and 416)
Resolves(n) ==
    IF n \notin DOMAIN caller THEN {}
    ELSE DepsOf(n)
           \cup (IF function_name(n) = "subfactory_fixture"
                 THEN {underscore(ModelClass(caller[n].function_kwargs.factory_class))}
                 ELSE IF function_name(n) = "model_fixture"
                 THEN {caller[n].function_kwargs.factory_name}
                 ELSE {})

RECURSIVE Leads(_)
Leads(S) ==
    LET more == S \cup UNION {Resolves(n) : n \in S}
    IN  IF more = S THEN S ELSE Leads(more)

Blocked(unit) ==
    /\ unit.is_related
    /\ Leads({unit.name}) \cap InProgress # {}

Runnable == {i \in 1..Len(queue) : ~Blocked(queue[i])}

Without(q, i) == SubSeq(q, 1, i - 1) \o SubSeq(q, i + 1, Len(q))

EvaluateRun ==
    /\ Running
    /\ Top.kind = "evaluate"
    /\ \E i \in Runnable :
         /\ queue' = Without(queue, i)
         /\ stack' = Append(stack, [Frame("unit", queue[i].name, "run")
                                      EXCEPT !.unit = queue[i]])
    /\ UNCHANGED <<buildVars, cache, instances, trace, ran, status>>

EvaluateDone ==
    /\ Running
    /\ Top.kind = "evaluate"
    /\ Runnable = {}
    /\ stack' = Pop
    /\ UNCHANGED <<buildVars, cache, queue, instances, trace, ran, status>>

\* DeferredFunction.__call__ on a reverse-association unit (lines 359-360)
RelatedUnit ==
    /\ Running
    /\ Top.kind = "unit"
    /\ Top.unit.is_related
    /\ Ready(Top)
    /\ ran' = ran \cup {[unit |-> Top.unit, got |-> cache[Top.unit.name]]}
    /\ stack' = Pop
    /\ UNCHANGED <<buildVars, cache, queue, instances, trace, status>>

\* DeferredFunction.__call__ on a post-generation unit (lines 392-393)
PostgenUnit ==
    /\ Running
    /\ Top.kind = "unit"
    /\ ~Top.unit.is_related
    /\ ran' = ran \cup {[unit |-> Top.unit, got |-> Top.unit.instance]}
    /\ stack' = Pop
    /\ UNCHANGED <<buildVars, cache, queue, instances, trace, status>>

(***************************************************************************)
(* The test runs of the Author / Book / Edition suite.                     *)
(***************************************************************************)
Decl(attr, value) == [attr |-> attr, value |-> value]

\* the blueprints of the suite; AuthorVariant is a factory of the Author
\* model and EditionVariant one of the Edition model, with a hook that the
\* registered EditionFactory does not declare; both bound by hand
\* model that the suite can bind to author_factory by hand
Suite(lazy) ==
    [f \in Factories \cup {"AuthorVariant", "EditionVariant"} |->
        CASE f = "AuthorFactory" ->
                <<Decl("name", Plain("n")),
                  Decl("books", RelatedFactory("BookFactory")),
                  Decl("hook", PostGeneration),
                  Decl("hook__k", Plain("kv"))>>
          [] f = "BookFactory" ->
                <<Decl("author", SubFactory("AuthorFactory")),
                  Decl("title", IF lazy THEN LazyFixture(<<"db">>) ELSE Plain("t"))>>
          [] f = "EditionFactory" -> <<>>
          [] f = "AuthorVariant" ->
                <<Decl("name", Plain("n")),
                  Decl("hook", PostGeneration),
                  Decl("hook__k", Plain("kv")),
                  Decl("hook__extra", Plain("dv")),
                  Decl("hook__", Plain("sv"))>>
          [] f = "EditionVariant" -> <<Decl("stamp", PostGeneration)>>]

\* the fixtures the suite writes by hand
HandWritten(variant) ==
    LET own == IF variant
               THEN {"db", "author_factory", "author__hook__extra", "edition_factory"}
               ELSE {"db"}
    IN  [n \in own |->
            HostFixture(n, CASE n = "db" -> Plain("conn")
                             [] n = "author_factory" -> FactoryValue("AuthorVariant")
                             [] n = "author__hook__extra" -> Plain("hv")
                             [] n = "edition_factory" -> FactoryValue("EditionVariant"))]

InitRun ==
    /\ \E lazy \in BOOLEAN, variant \in BOOLEAN :
         /\ blueprints = Suite(lazy)
         /\ LET a == Registered("AuthorFactory", None, HandWritten(variant),
                                [n \in {"hook__k"} |-> Plain("ov")])
                b == Registered("BookFactory", None, a, NoLocals)
            IN  caller = Registered("EditionFactory", None, b, NoLocals)
    /\ call = NoCall
    /\ emitted = <<>>
    /\ InitTest

NextRun ==
    \/ \E n \in DOMAIN caller : Request(n)
    \/ Call
    \/ host_fixture
    \/ attr_fixture
    \/ factory_fixture
    \/ subfactory_fixture
    \/ ModelEntry
    \/ ModelConstruct
    \/ ModelCache
    \/ ModelDefer
    \/ ModelExit
    \/ ModelReturn
    \/ EvaluateRun
    \/ EvaluateDone
    \/ RelatedUnit
    \/ PostgenUnit

SpecRun == InitRun /\ [][NextRun]_vars

(***************************************************************************)
(* What the claims about a test run speak of.                              *)
(***************************************************************************)
HasEvent(n, ev) ==
    n \in DOMAIN trace /\ \E i \in 1..Len(trace[n]) : trace[n][i].ev = ev

Events(n) == [i \in 1..Len(trace[n]) |-> trace[n][i].ev]

\* every deferred unit made so far: handed to defer, queued, running, or run
UnitsMade ==
    UNION {UNION {SeqToSet(trace[n][i].units) : i \in 1..Len(trace[n])} :
             n \in DOMAIN trace}

UnitsAlive ==
    SeqToSet(queue)
      \cup {stack[i].unit : i \in {j \in 1..Len(stack) : stack[j].kind = "unit"}}
      \cup {r.unit : r \in ran}

Built(f) == {i \in 1..Len(instances) : instances[i].factory = f}

(***************************************************************************)
(* C1: whenever deferred units exist for an instance, the instance is in   *)
(* the fixture cache under the model fixture's own name; whoever asks for  *)
(* that name afterwards (the fixture chain of a reverse-association unit)  *)
(* is given that instance, and no model fixture name is constructed twice. *)
(***************************************************************************)
C1_CachedBeforeUnits ==
    /\ \A u \in UnitsAlive \cup UnitsMade :
         /\ u.fixture \in DOMAIN cache
         /\ ~u.is_related => cache[u.fixture] = u.instance
    /\ \A n \in DOMAIN trace :
         /\ Cardinality({i \in 1..Len(trace[n]) : trace[n][i].ev = "construct"}) <= 1
         /\ \A i \in 1..Len(trace[n]) :
              trace[n][i].ev \in {"cache", "defer", "return"} =>
                  n \in DOMAIN cache /\ cache[n] = trace[n][i].instance
    /\ \A i \in 1..Len(instances) :
         \A key \in DOMAIN instances[i].kwargs :
            LET given == instances[i].kwargs[key]
            IN  given.kind = "instance" =>
                    \E n \in DOMAIN cache :
                        /\ cache[n] = given
                        /\ HasEvent(n, "cache")
    /\ \A r \in ran : r.unit.is_related => r.got.kind = "instance"

\* a reverse-association unit of author has run while the author fixture was
\* still being set up, and the Book it made was given the cached author
C1_Witness ==
    /\ OnStack("author")
    /\ \E r \in ran : r.unit.is_related /\ r.unit.fixture = "author"
    /\ \E i \in Built("BookFactory") :
         /\ "author" \in DOMAIN instances[i].kwargs
         /\ instances[i].kwargs["author"] = cache["author"]

(***************************************************************************)
(* C2: a Book is set up inside the set-up of the author fixture only under *)
(* the fixture author__books, and only after the author was constructed    *)
(* and cached (the author fixture is at its exit evaluate); every Book     *)
(* built is given the instance that the author fixture resolves to, and    *)
(* a single Author is built.                                               *)
(***************************************************************************)
C2_ReverseAssociation ==
    /\ \A i \in 1..Len(stack), j \in 1..Len(stack) :
         ( /\ i < j
           /\ stack[i].kind = "fixture" /\ stack[i].name = "author"
           /\ stack[j].kind = "fixture" /\ stack[j].name = "book" )
         => /\ stack[i].pc = "return"
            /\ \E k \in (i + 1)..(j - 1) :
                 stack[k].kind = "fixture" /\ stack[k].name = "author__books"
    /\ \A i \in Built("BookFactory") :
         /\ "author" \in DOMAIN instances[i].kwargs
         /\ "author" \in DOMAIN cache
         /\ instances[i].kwargs["author"] = cache["author"]
         /\ Cardinality({j \in 1..Len(instances) :
                            instances[j].fixture = "author"}) = 1

\* the author fixture was asked for, and its unit resolved author__books
C2_Witness ==
    /\ stack = <<>>
    /\ status.state = "idle"
    /\ "author__books" \in DOMAIN cache
    /\ Len(trace["author"]) = 6
    /\ \E r \in ran : r.unit.name = "author__books" /\ r.got = cache["book"]
    /\ \E i \in Built("BookFactory") : instances[i].kwargs["author"] = cache["author"]

(***************************************************************************)
(* C7 as stated: when the constructor raised, the error reached the test,  *)
(* the model fixture name has no cache entry, defer was not called, and    *)
(* the queue is what it was when this resolution began.                    *)
(***************************************************************************)
ConstructorRaised(n) == HasEvent(n, "raise")

Propagated(n) ==
    /\ status.state = "failed"
    /\ status.why = "constructor"
    /\ status.name = n
    /\ stack = <<>>

C7_QueueUnchanged ==
    \A n \in DOMAIN caller :
        ConstructorRaised(n) =>
            /\ Propagated(n)
            /\ n \notin DOMAIN cache
            /\ ~HasEvent(n, "defer")
            /\ queue = status.queue0

(***************************************************************************)
(* C7 amended: when the constructor raised, the error reached the test,    *)
(* the model fixture name has no cache entry, defer was not called, and    *)
(* this resolution added no unit to the queue: what is queued was queued   *)
(* when the resolution began (its entry evaluate may have run units).      *)
(***************************************************************************)
C7_NothingEnqueued ==
    \A n \in DOMAIN caller :
        ConstructorRaised(n) =>
            /\ Propagated(n)
            /\ n \notin DOMAIN cache
            /\ ~HasEvent(n, "cache")
            /\ ~HasEvent(n, "defer")
            /\ Events(n) = <<"evaluate", "raise">>
            /\ Len(queue) <= Len(status.queue0)
            /\ SeqToSet(queue) \subseteq SeqToSet(status.queue0)
            /\ \A u \in UnitsAlive \cup UnitsMade : u.fixture # n

\* the constructor of a model raised below other fixtures, with a unit queued
C7_Witness ==
    /\ ConstructorRaised("book")
    /\ Propagated("book")
    /\ "author" \in DOMAIN cache
    /\ queue # <<>>

(***************************************************************************)
(* C9: a model fixture that returned went through evaluate, construct,     *)
(* cache write, defer, evaluate, return, in this order and once each; the  *)
(* list given to defer holds one unit per post declaration of the          *)
(* blueprint, in order, named fixture_name__attr, is_related exactly for   *)
(* the reverse associations; no resolution departs from this order.        *)
(***************************************************************************)
Protocol == <<"evaluate", "construct", "cache", "defer", "evaluate", "return">>

C9_ProtocolOrder ==
    \A n \in DOMAIN trace :
        /\ \/ IsPrefix(Events(n), Protocol)
           \/ Events(n) = <<"evaluate", "raise">>
        /\ HasEvent(n, "return") => Events(n) = Protocol
        /\ HasEvent(n, "defer") =>
             LET factory_class == trace[n][2].instance.target
                 post == post_declarations(factory_class)
                 units == trace[n][4].units
             IN  /\ Len(units) = Len(post)
                 /\ \A i \in 1..Len(post) :
                      /\ units[i].name = Join(n, post[i].attr)
                      /\ units[i].factory = factory_class
                      /\ units[i].is_related = (post[i].value.kind = "related")
                      /\ ~units[i].is_related => units[i].instance = trace[n][2].instance

\* a model with post declarations of both kinds and one with none returned
C9_Witness ==
    /\ HasEvent("author", "return")
    /\ Len(trace["author"][4].units) = 2
    /\ HasEvent("edition", "return")
    /\ trace["edition"][4].units = <<>>

(***************************************************************************)
(* C10 as stated: extra[k] of a hook is the value of the fixture           *)
(* model__attr__k whenever a fixture of that name is in scope, and the     *)
(* declared default of k only when there is none.                          *)
(***************************************************************************)
PostgenUnits == {u \in UnitsMade : ~u.is_related}

\* what the fixture n of the scope resolves to
ValueInScope(n) == caller[n].function_kwargs.value

C10_ExtraFromScope ==
    \A u \in PostgenUnits :
        /\ DOMAIN u.extra = DOMAIN contexts(u.factory, u.attr) \ {""}
        /\ \A k \in DOMAIN u.extra :
             u.extra[k] = IF Join(u.name, k) \in DOMAIN caller
                          THEN ValueInScope(Join(u.name, k))
                          ELSE contexts(u.factory, u.attr)[k]

(***************************************************************************)
(* C10 amended: extra[k] of a hook is the value of the fixture             *)
(* model__attr__k when that name is among the parameters of the model      *)
(* fixture, and the declared default of k otherwise, also when a fixture   *)
(* of that name is in scope.                                               *)
(***************************************************************************)
C10_ExtraFromParameters ==
    \A u \in PostgenUnits :
        /\ DOMAIN u.extra = DOMAIN contexts(u.factory, u.attr) \ {""}
        /\ \A k \in DOMAIN u.extra :
             u.extra[k] = IF Join(u.name, k) \in argnames(u.fixture)
                          THEN ValueInScope(Join(u.name, k))
                          ELSE contexts(u.factory, u.attr)[k]

\* a hook has run with one key taken from its fixture and one from its default
C10_Witness ==
    \E r \in ran :
        /\ ~r.unit.is_related
        /\ DOMAIN r.unit.extra = {"k", "extra"}
        /\ r.unit.extra["k"] = Plain("ov")
        /\ r.unit.extra["extra"] = Plain("dv")

(***************************************************************************)
(* C11: a model fixture that has written its instance to the fixture cache *)
(* and is no longer being set up, whether it returned or raised, has       *)
(* handed the units of that instance to defer.                             *)
(***************************************************************************)
Finished(n) == n \in DOMAIN trace /\ ~OnStack(n)

C11_CachedImpliesDeferred ==
    \A n \in DOMAIN caller :
        (Finished(n) /\ HasEvent(n, "cache")) => HasEvent(n, "defer")

====
